---- MODULE Spec2Model ----
(***************************************************************************)
(* Model of the Splunk pump (src/pumps/splunk.go): construction of the    *)
(* Splunk HTTP Event Collector client, initialisation of the pump, and     *)
(* delivery of a batch of analytics records.                               *)
(*                                                                         *)
(* Go strings that are taken apart (URLs, tokens, API keys) are sequences   *)
(* of one-byte strings.  Go strings that are only compared or copied       *)
(* (file names, record fields) are TLA+ strings.                           *)
(***************************************************************************)
EXTENDS Integers, Sequences, FiniteSets, TLC

(***************************************************************************)
(* Bounds of the model.                                                    *)
(***************************************************************************)
\* Longest batch handed to WriteData.
MaxBatch == 2
\* Number of SplunkPump instances living in the process.
NumPumps == 2

(***************************************************************************)
(* String helpers (package strings).                                       *)
(***************************************************************************)
Letter == {"a","b","c","d","e","f","g","h","i","j","k","l","m",
           "n","o","p","q","r","s","t","u","v","w","x","y","z"}
Digit == {"0","1","2","3","4","5","6","7","8","9"}

\* strings.Index(s, c) + 1 for a one-character c; 0 when c does not occur.
Index(s, c) ==
    IF \E i \in 1..Len(s) : s[i] = c
    THEN CHOOSE i \in 1..Len(s) : s[i] = c /\ \A j \in 1..(i-1) : s[j] # c
    ELSE 0

\* strings.LastIndex(s, c) + 1 for a one-character c; 0 when c does not occur.
LastIndex(s, c) ==
    IF \E i \in 1..Len(s) : s[i] = c
    THEN CHOOSE i \in 1..Len(s) : s[i] = c /\ \A j \in (i+1)..Len(s) : s[j] # c
    ELSE 0

\* strings.HasPrefix(s, p).
HasPrefix(s, p) == Len(s) >= Len(p) /\ SubSeq(s, 1, Len(p)) = p

\* strings.Count(s, c) for a one-character c.
Count(s, c) == Cardinality({i \in 1..Len(s) : s[i] = c})

\* strings.Cut(s, c): the text before and after the first c.
Cut(s, c) ==
    LET i == Index(s, c) IN
    IF i = 0 THEN [before |-> s, after |-> <<>>, found |-> FALSE]
    ELSE [before |-> SubSeq(s, 1, i-1), after |-> SubSeq(s, i+1, Len(s)),
          found |-> TRUE]

(***************************************************************************)
(* Package net/url, as NewSplunkClient and http.NewRequest use it.  A URL  *)
(* is a sequence of bytes.  A printable ASCII byte is the one-character    *)
(* string of its character; the grave accent (0x60) and every byte         *)
(* outside printable ASCII is the string "0xHH" of its code in upper-case  *)
(* hexadecimal.  URLs handed to Parse hold no '@' in the authority and no  *)
(* '[' that opens the host, so user-info and IPv6 literals do not arise.   *)
(***************************************************************************)
NoErr == "nil"

Upper == {"A","B","C","D","E","F","G","H","I","J","K","L","M",
          "N","O","P","Q","R","S","T","U","V","W","X","Y","Z"}

\* The hexadecimal digits, upper case as url.escape writes them, and lower
\* case as url.unescape also reads them.
HexDigits == <<"0","1","2","3","4","5","6","7","8","9","A","B","C","D","E","F">>
LowerHexDigits == <<"0","1","2","3","4","5","6","7","8","9","a","b","c","d","e","f">>

\* The bytes 0x20..0x7E in order.
Ascii ==
    <<" ", "!", "\"", "#", "$", "%", "&", "'", "(", ")", "*", "+",
      ",", "-", ".", "/", "0", "1", "2", "3", "4", "5", "6", "7",
      "8", "9", ":", ";", "<", "=", ">", "?", "@", "A", "B", "C",
      "D", "E", "F", "G", "H", "I", "J", "K", "L", "M", "N", "O",
      "P", "Q", "R", "S", "T", "U", "V", "W", "X", "Y", "Z", "[",
      "\\", "]", "^", "_", "0x60", "a", "b", "c", "d", "e", "f", "g",
      "h", "i", "j", "k", "l", "m", "n", "o", "p", "q", "r", "s",
      "t", "u", "v", "w", "x", "y", "z", "{", "|", "}", "~">>

\* The two upper-case hexadecimal digits of n.
hexOf(n) == <<HexDigits[(n \div 16) + 1], HexDigits[(n % 16) + 1]>>

\* The byte with code n.
byteOf(n) ==
    IF n \in 32..126 THEN Ascii[n - 31] ELSE "0x" \o hexOf(n)[1] \o hexOf(n)[2]

Bytes == {byteOf(n) : n \in 0..255}

\* The code of byte c.
codeOf == [c \in Bytes |-> CHOOSE n \in 0..255 : byteOf(n) = c]

\* url.ishex and url.unhex.
ishex(c) == \E k \in 1..16 : HexDigits[k] = c \/ LowerHexDigits[k] = c
unhex(c) == (CHOOSE k \in 1..16 : HexDigits[k] = c \/ LowerHexDigits[k] = c) - 1

\* strings.ToLower(s).
ToLower(s) ==
    [i \in 1..Len(s) |-> IF s[i] \in Upper THEN byteOf(codeOf[s[i]] + 32) ELSE s[i]]

\* url.stringContainsCTLByte(s).
stringContainsCTLByte(s) ==
    \E i \in 1..Len(s) : codeOf[s[i]] < 32 \/ codeOf[s[i]] = 127

\* The characters url.shouldEscape leaves alone in a host, beside letters
\* and digits.
HostSubDelims == {"!", "$", "&", "'", "(", ")", "*", "+", ",", ";", "=", ":",
                  "[", "]", "<", ">", "\""}

\* RFC 3986 section 2.3, the unreserved marks.
UnreservedMarks == {"-", "_", ".", "~"}

\* RFC 3986 section 2.2, the reserved characters url.shouldEscape names.
Reserved == {"$", "&", "+", ",", "/", ":", ";", "=", "?", "@"}

\* url.shouldEscape(c, mode) for the modes encodeHost, encodePath and
\* encodeFragment.
shouldEscape(c, mode) ==
    IF c \in Letter \cup Upper \cup Digit THEN FALSE
    ELSE IF mode = "encodeHost" /\ c \in HostSubDelims THEN FALSE
    ELSE IF c \in UnreservedMarks THEN FALSE
    ELSE IF c \in Reserved /\ mode = "encodePath" THEN c = "?"
    ELSE IF c \in Reserved /\ mode = "encodeFragment" THEN FALSE
    ELSE IF mode = "encodeFragment" /\ c \in {"!", "(", ")", "*"} THEN FALSE
    ELSE TRUE

\* The two upper-case hexadecimal digits of the code of c.
hexCode(c) == hexOf(codeOf[c])

\* url.escape(s, mode), from the i-th character on: every character that
\* shouldEscape names becomes "%XX".
RECURSIVE escapeFrom(_, _, _)
escapeFrom(s, mode, i) ==
    IF i > Len(s) THEN <<>>
    ELSE (IF shouldEscape(s[i], mode) THEN <<"%">> \o hexCode(s[i]) ELSE <<s[i]>>)
         \o escapeFrom(s, mode, i + 1)

escape(s, mode) == escapeFrom(s, mode, 1)

errEscape == "invalid URL escape"
errInvalidHost == "invalid character in host name"

\* The decoded byte c put before the decoded rest r.
unescapeCons(c, r) ==
    IF r.err # NoErr THEN r ELSE [s |-> <<c>> \o r.s, err |-> NoErr]

\* url.unescape(s, mode), from the i-th character on: "%XX" becomes the
\* byte XX.  A '%' not followed by two hexadecimal digits fails; in a host,
\* so do an escape of an ASCII byte other than "%25" and an ASCII character
\* that shouldEscape names.
RECURSIVE unescapeFrom(_, _, _)
unescapeFrom(s, mode, i) ==
    IF i > Len(s) THEN [s |-> <<>>, err |-> NoErr]
    ELSE IF s[i] = "%"
    THEN IF i + 2 > Len(s) \/ ~ishex(s[i+1]) \/ ~ishex(s[i+2])
         THEN [s |-> <<>>, err |-> errEscape]
         ELSE IF mode = "encodeHost" /\ unhex(s[i+1]) < 8
                 /\ SubSeq(s, i, i + 2) # <<"%", "2", "5">>
         THEN [s |-> <<>>, err |-> errEscape]
         ELSE unescapeCons(byteOf(16 * unhex(s[i+1]) + unhex(s[i+2])),
                           unescapeFrom(s, mode, i + 3))
    ELSE IF mode = "encodeHost" /\ codeOf[s[i]] < 128
            /\ shouldEscape(s[i], "encodeHost")
    THEN [s |-> <<>>, err |-> errInvalidHost]
    ELSE unescapeCons(s[i], unescapeFrom(s, mode, i + 1))

unescape(s, mode) == unescapeFrom(s, mode, 1)

\* url.validEncoded(s, mode): s may stand as it is in a printed URL.
validEncoded(s, mode) ==
    \A i \in 1..Len(s) :
        \/ s[i] \in {"!", "$", "&", "'", "(", ")", "*", "+", ",", ";", "=", ":",
                     "@", "[", "]", "%"}
        \/ ~shouldEscape(s[i], mode)

\* The zero url.URL.
ZeroURL == [Scheme |-> <<>>, Opaque |-> <<>>, Host |-> <<>>, Path |-> <<>>,
            RawPath |-> <<>>, RawQuery |-> <<>>, ForceQuery |-> FALSE,
            OmitHost |-> FALSE, Fragment |-> <<>>, RawFragment |-> <<>>]

\* (*url.URL).setPath(p), with p decoded: the path is the decoded p, and
\* RawPath keeps p when the default encoding of the path differs from it.
setPathDecoded(u, p, d) ==
    IF d.err # NoErr THEN [url |-> ZeroURL, err |-> d.err]
    ELSE [url |-> [u EXCEPT !.Path = d.s,
                            !.RawPath = IF escape(d.s, "encodePath") = p
                                        THEN <<>> ELSE p],
          err |-> NoErr]

setPath(u, p) == setPathDecoded(u, p, unescape(p, "encodePath"))

\* (*url.URL).setFragment(f), likewise.
setFragmentDecoded(u, f, d) ==
    IF d.err # NoErr THEN [url |-> ZeroURL, err |-> d.err]
    ELSE [url |-> [u EXCEPT !.Fragment = d.s,
                            !.RawFragment = IF escape(d.s, "encodeFragment") = f
                                            THEN <<>> ELSE f],
          err |-> NoErr]

setFragment(u, f) == setFragmentDecoded(u, f, unescape(f, "encodeFragment"))

\* Whether the raw form decodes, without error, to the decoded form.
decodesTo(raw, mode, decoded) ==
    unescape(raw, mode).err = NoErr /\ unescape(raw, mode).s = decoded

\* (*url.URL).EscapedPath().
EscapedPath(u) ==
    IF u.RawPath # <<>> /\ validEncoded(u.RawPath, "encodePath")
                        /\ decodesTo(u.RawPath, "encodePath", u.Path)
    THEN u.RawPath
    ELSE IF u.Path = <<"*">> THEN <<"*">>
    ELSE escape(u.Path, "encodePath")

\* (*url.URL).EscapedFragment().
EscapedFragment(u) ==
    IF u.RawFragment # <<>> /\ validEncoded(u.RawFragment, "encodeFragment")
                            /\ decodesTo(u.RawFragment, "encodeFragment", u.Fragment)
    THEN u.RawFragment
    ELSE escape(u.Fragment, "encodeFragment")

\* url.getScheme: split off a leading "scheme:".
RECURSIVE getSchemeFrom(_, _)
getSchemeFrom(rawURL, i) ==
    IF i > Len(rawURL)
    THEN [scheme |-> <<>>, rest |-> rawURL, err |-> NoErr]
    ELSE LET c == rawURL[i] IN
         IF c \in Letter \cup Upper THEN getSchemeFrom(rawURL, i+1)
         ELSE IF c \in Digit \cup {"+", "-", "."}
         THEN IF i = 1 THEN [scheme |-> <<>>, rest |-> rawURL, err |-> NoErr]
              ELSE getSchemeFrom(rawURL, i+1)
         ELSE IF c = ":"
         THEN IF i = 1
              THEN [scheme |-> <<>>, rest |-> <<>>, err |-> "missing protocol scheme"]
              ELSE [scheme |-> SubSeq(rawURL, 1, i-1),
                    rest |-> SubSeq(rawURL, i+1, Len(rawURL)), err |-> NoErr]
         ELSE [scheme |-> <<>>, rest |-> rawURL, err |-> NoErr]

getScheme(rawURL) == getSchemeFrom(rawURL, 1)

\* url.validOptionalPort: "" or ":" followed by digits.
validOptionalPort(port) ==
    \/ port = <<>>
    \/ /\ port[1] = ":"
       /\ \A i \in 2..Len(port) : port[i] \in Digit

\* url.parseHost / url.parseAuthority without user-info: the port is
\* checked first, then the host is decoded.
parseHostDecoded(d) == [host |-> d.s, err |-> d.err]

parseHost(host) ==
    LET i == LastIndex(host, ":") IN
    IF i # 0 /\ ~validOptionalPort(SubSeq(host, i, Len(host)))
    THEN [host |-> <<>>, err |-> "invalid port after host"]
    ELSE parseHostDecoded(unescape(host, "encodeHost"))

\* url.parse, the authority: "//host[:port]" then the path.
parseAuthorityHost(u0, h, path) ==
    IF h.err # NoErr THEN [url |-> ZeroURL, err |-> h.err]
    ELSE setPath([u0 EXCEPT !.Host = h.host], path)

parseAuthority(u0, after, i) ==
    parseAuthorityHost(u0,
                       parseHost(IF i = 0 THEN after ELSE SubSeq(after, 1, i-1)),
                       IF i = 0 THEN <<>> ELSE SubSeq(after, i, Len(after)))

\* url.parse, what follows the scheme and precedes the query: u0 holds the
\* scheme and the query.
parseRest(u0, rest) ==
    IF ~HasPrefix(rest, <<"/">>) /\ u0.Scheme # <<>>
    THEN \* a rootless path after a scheme is opaque
         [url |-> [u0 EXCEPT !.Opaque = rest], err |-> NoErr]
    ELSE IF ~HasPrefix(rest, <<"/">>) /\ Index(Cut(rest, "/").before, ":") # 0
    THEN [url |-> ZeroURL, err |-> "first path segment in URL cannot contain colon"]
    ELSE IF HasPrefix(rest, <<"/", "/">>)
            /\ (u0.Scheme # <<>> \/ ~HasPrefix(rest, <<"/", "/", "/">>))
    THEN parseAuthority(u0, SubSeq(rest, 3, Len(rest)),
                        Index(SubSeq(rest, 3, Len(rest)), "/"))
    ELSE setPath([u0 EXCEPT !.OmitHost = (u0.Scheme # <<>>
                                          /\ HasPrefix(rest, <<"/">>))],
                 rest)

\* url.parse, the query: a lone trailing "?" forces an empty query.
parseQuery(scheme, rest, q) ==
    IF Len(rest) > 0 /\ rest[Len(rest)] = "?" /\ Count(rest, "?") = 1
    THEN parseRest([ZeroURL EXCEPT !.Scheme = scheme, !.ForceQuery = TRUE],
                   SubSeq(rest, 1, Len(rest)-1))
    ELSE parseRest([ZeroURL EXCEPT !.Scheme = scheme, !.RawQuery = q.after],
                   q.before)

parseScheme(s) ==
    IF s.err # NoErr THEN [url |-> ZeroURL, err |-> s.err]
    ELSE parseQuery(ToLower(s.scheme), s.rest, Cut(s.rest, "?"))

\* url.parse(rawURL, viaRequest = false), after the fragment was cut off.
parse(rawURL) ==
    IF stringContainsCTLByte(rawURL)
    THEN [url |-> ZeroURL, err |-> "invalid control character in URL"]
    ELSE IF rawURL = <<"*">> THEN [url |-> [ZeroURL EXCEPT !.Path = <<"*">>], err |-> NoErr]
    ELSE parseScheme(getScheme(rawURL))

\* url.Parse, the fragment put back on the parsed URL.
parseFragment(r, fragment) ==
    IF r.err # NoErr \/ fragment = <<>> THEN r
    ELSE setFragment(r.url, fragment)

\* url.Parse(rawURL).
Parse(rawURL) == parseFragment(parse(Cut(rawURL, "#").before), Cut(rawURL, "#").after)

\* (*url.URL).String(), with the escaped host, path and fragment.
stringParts(u, host, path, fragment) ==
    LET scheme == IF u.Scheme # <<>> THEN u.Scheme \o <<":">> ELSE <<>>
        auth   == IF u.Scheme # <<>> \/ u.Host # <<>>
                  THEN IF u.OmitHost /\ u.Host = <<>> THEN <<>>
                       ELSE (IF u.Host # <<>> \/ u.Path # <<>>
                             THEN <<"/", "/">> ELSE <<>>) \o host
                  ELSE <<>>
        slash  == IF path # <<>> /\ path[1] # "/" /\ u.Host # <<>>
                  THEN <<"/">> ELSE <<>>
        dot    == IF scheme \o auth \o slash = <<>>
                     /\ Index(Cut(path, "/").before, ":") # 0
                  THEN <<".", "/">> ELSE <<>>
        body   == IF u.Opaque # <<>> THEN scheme \o u.Opaque
                  ELSE scheme \o auth \o slash \o dot \o path
        query  == IF u.ForceQuery \/ u.RawQuery # <<>>
                  THEN <<"?">> \o u.RawQuery ELSE <<>>
        frag   == IF u.Fragment # <<>> THEN <<"#">> \o fragment ELSE <<>>
    IN body \o query \o frag

\* (*url.URL).String().
String(u) ==
    stringParts(u, escape(u.Host, "encodeHost"), EscapedPath(u), EscapedFragment(u))

(***************************************************************************)
(* Constants of splunk.go.                                                 *)
(***************************************************************************)
\* "/services/collector/event/1.0"
defaultPath == <<"/", "s", "e", "r", "v", "i", "c", "e", "s", "/", "c", "o", "l", "l", "e", "c", "t", "o", "r", "/", "e", "v", "e", "n", "t", "/", "1", ".", "0">>
authHeaderName == <<"a", "u", "t", "h", "o", "r", "i", "z", "a", "t", "i", "o", "n">>
authHeaderPrefix == <<"S", "p", "l", "u", "n", "k", " ">>
errInvalidSettings == "Empty settings"

(***************************************************************************)
(* time.Time.  An instant is its Unix second count, kept as the pair       *)
(* (hi, lo) with seconds = hi * 10^9 + lo so that instants beyond year     *)
(* 9999 fit 32-bit model integers, and its nanosecond part.  All           *)
(* instants of the model are at or after the epoch.                        *)
(***************************************************************************)
\* (time.Time).Unix(): the whole seconds, the nanoseconds dropped.
Unix(ts) == [hi |-> ts.hi, lo |-> ts.lo]

\* (time.Time).MarshalJSON succeeds only for years 0..9999, that is before
\* 253402300800 seconds (10000-01-01T00:00:00Z).
timeMarshals(ts) == ts.hi < 253 \/ (ts.hi = 253 /\ ts.lo < 402300800)

(***************************************************************************)
(* crypto/tls and the file system the certificates are loaded from.        *)
(***************************************************************************)
\* The certificate/key file pairs that exist and match on disk.
KeyPairsOnDisk == {<<"client.crt", "client.key">>}

\* tls.LoadX509KeyPair(certFile, keyFile).
LoadX509KeyPair(certFile, keyFile) ==
    IF <<certFile, keyFile>> \in KeyPairsOnDisk
    THEN [cert |-> <<certFile, keyFile>>, err |-> NoErr]
    ELSE [cert |-> <<>>, err |-> "tls: failed to load key pair"]

\* &tls.Config{InsecureSkipVerify: skipVerify}
tlsConfigSkip(skipVerify) ==
    [InsecureSkipVerify |-> skipVerify, Certificates |-> <<>>, ServerName |-> ""]

\* &tls.Config{Certificates: []tls.Certificate{cert}, ServerName: serverName}
tlsConfigCert(cert, serverName) ==
    [InsecureSkipVerify |-> FALSE, Certificates |-> <<cert>>, ServerName |-> serverName]

\* The transport of http.DefaultClient before any client is constructed
\* (Transport nil: http.DefaultTransport, which carries no TLS client config).
GoDefaultTransport ==
    [TLSClientConfig |-> [InsecureSkipVerify |-> FALSE, Certificates |-> <<>>,
                          ServerName |-> ""],
     owner |-> "http.DefaultTransport"]

(***************************************************************************)
(* SplunkClient and NewSplunkClient.                                       *)
(***************************************************************************)
\* A nil *SplunkClient.
NilClient == [ptr |-> "nil", Token |-> <<>>, CollectorURL |-> <<>>, httpClient |-> "nil"]

\* Faulty variant of the guard of line 42: the URL is not looked at.
emptySettingsTokenOnly(token, collectorURL) == token = <<>>

\* The guard of line 42.
emptySettings(token, collectorURL) == token = <<>> \/ collectorURL = <<>>

\* NewSplunkClient returns: the client, the error and, when line 58 was
\* reached, the transport stored in http.DefaultClient.Transport.
constructFailed(e) ==
    [c |-> NilClient, err |-> e, setsTransport |-> FALSE,
     transport |-> GoDefaultTransport]

\* Lines 58-66, with the parsed URL u and the TLS configuration built.
constructClient(token, u, tlsConfig) ==
    [c |-> [ptr |-> "SplunkClient",
            Token |-> token,
            CollectorURL |-> String([u.url EXCEPT !.Path = defaultPath]),
            httpClient |-> "http.DefaultClient"],
     err |-> NoErr,
     setsTransport |-> TRUE,
     transport |-> [TLSClientConfig |-> tlsConfig, owner |-> "http.Transport"]]

\* Lines 52-57, with the outcome of loading the key pair.
constructWithCert(token, u, pair, serverName) ==
    IF pair.err # NoErr THEN constructFailed(pair.err)
    ELSE constructClient(token, u, tlsConfigCert(pair.cert, serverName))

\* Lines 46-57, with the outcome of url.Parse.
constructParsed(token, u, skipVerify, certFile, keyFile, serverName) ==
    IF u.err # NoErr THEN constructFailed(u.err)
    ELSE IF ~skipVerify
    THEN constructWithCert(token, u, LoadX509KeyPair(certFile, keyFile), serverName)
    ELSE constructClient(token, u, tlsConfigSkip(skipVerify))

NewSplunkClient(token, collectorURL, skipVerify, certFile, keyFile, serverName) ==
    IF emptySettings(token, collectorURL) THEN constructFailed(errInvalidSettings)
    ELSE constructParsed(token, Parse(collectorURL), skipVerify, certFile, keyFile,
                         serverName)

(***************************************************************************)
(* SplunkPumpConfig and the configuration handed to Init.                  *)
(***************************************************************************)
\* &SplunkPumpConfig{}
ZeroConfig ==
    [ptr |-> "SplunkPumpConfig",
     CollectorToken |-> <<>>, CollectorURL |-> <<>>,
     SSLInsecureSkipVerify |-> FALSE, SSLCertFile |-> "", SSLKeyFile |-> "",
     SSLServerName |-> "",
     ObfuscateAPIKeys |-> FALSE, ObfuscateAPIKeysLength |-> 0,
     Fields |-> <<>>]

\* The nil *SplunkPumpConfig of a pump that Init never ran on.
NilConfig == [ZeroConfig EXCEPT !.ptr = "nil"]

errDecode == "mapstructure: expected a map"

\* mapstructure.Decode(config, p.config): a map input fills the struct; an
\* input that is no map fails and leaves the zero struct.
Decode(input) ==
    IF input.kind = "map" THEN [config |-> input.config, err |-> NoErr]
    ELSE [config |-> ZeroConfig, err |-> errDecode]

(***************************************************************************)
(* The event of one analytics record (WriteData, lines 148-192).           *)
(***************************************************************************)
\* The zero value of interface{}: what a Go map yields for a missing key.
NilValue == "<nil>"

\* The fourteen keys of the default event.
DefaultKeys == {"method", "path", "response_code", "api_key", "time_stamp",
                "api_version", "api_name", "api_id", "org_id", "oauth_id",
                "raw_request", "request_time", "raw_response", "ip_address"}

\* The field registry the loop consults: field name -> value of that field
\* of the current record.
mapping(decoded) ==
    [k \in DefaultKeys |->
        CASE k = "method"        -> decoded.Method
          [] k = "path"          -> decoded.Path
          [] k = "response_code" -> decoded.ResponseCode
          [] k = "api_key"       -> decoded.APIKey
          [] k = "time_stamp"    -> decoded.TimeStamp
          [] k = "api_version"   -> decoded.APIVersion
          [] k = "api_name"      -> decoded.APIName
          [] k = "api_id"        -> decoded.APIID
          [] k = "org_id"        -> decoded.OrgID
          [] k = "oauth_id"      -> decoded.OauthID
          [] k = "raw_request"   -> decoded.RawRequest
          [] k = "request_time"  -> decoded.RequestTime
          [] k = "raw_response"  -> decoded.RawResponse
          [] k = "ip_address"    -> decoded.IPAddress]

\* m[k] of a Go map: the zero value when k is no key of m.
mapGet(m, k) == IF k \in DOMAIN m THEN m[k] ELSE NilValue

\* event[k] = v
mapSet(event, k, v) ==
    [x \in DOMAIN event \cup {k} |-> IF x = k THEN v ELSE event[x]]

\* make(map[string]interface{})
EmptyEvent == [x \in {} |-> NilValue]

\* What a slice expression out of range does.
PanicValue == "panic: runtime error: slice bounds out of range"

\* apiKey[len(apiKey)-n:] panics when len(apiKey)-n lies outside
\* 0..len(apiKey).
slicePanics(apiKey, n) == n < 0 \/ n > Len(apiKey)

\* "****" + apiKey[len(apiKey)-n:]
obfuscated(apiKey, n) ==
    IF slicePanics(apiKey, n) THEN PanicValue
    ELSE <<"*", "*", "*", "*">> \o SubSeq(apiKey, Len(apiKey) - n + 1, Len(apiKey))

\* The number lines 166-167 compare and cut with.  The source names
\* p.config.ObfuscateAPIKeys there, the boolean flag, which no Go compiler
\* accepts as an integer; the model reads the integer the specification
\* gives that role (obfuscate_api_keys_length), the field
\* p.config.ObfuscateAPIKeysLength of line 106.
obfuscateLength(config) == config.ObfuscateAPIKeysLength

\* The test of line 158 that makes the loop `continue`.
skipsField(registry, field) == field \in DOMAIN registry

\* The event under construction: the map and whether building it panicked.
building(event) == [event |-> event, panic |-> FALSE]
panicked(event) == [event |-> event, panic |-> TRUE]

\* One pass of the loop body of lines 156-173 for `field`, on the event
\* built so far.
projectField(config, decoded, event, field) ==
    IF skipsField(mapping(decoded), field) THEN building(event)
    ELSE IF field = "api_key" /\ config.ObfuscateAPIKeys
    THEN IF Len(decoded.APIKey) > obfuscateLength(config)
         THEN IF slicePanics(decoded.APIKey, obfuscateLength(config))
              THEN panicked(event)
              ELSE building(mapSet(event, field,
                                   obfuscated(decoded.APIKey, obfuscateLength(config))))
         ELSE building(event)
    ELSE building(mapSet(event, field, mapGet(mapping(decoded), field)))

\* The loop of lines 156-173 over p.config.Fields, from its i-th field on,
\* b being what the fields before it built.
RECURSIVE projectFrom(_, _, _, _)
projectFrom(config, decoded, b, i) ==
    IF b.panic \/ i > Len(config.Fields) THEN b
    ELSE projectFrom(config, decoded,
                     projectField(config, decoded, b.event, config.Fields[i]), i + 1)

\* Faulty variant of the default event: api_key redacted as in the field loop.
defaultEventObfuscating(config, decoded) ==
    [k \in DefaultKeys |->
        IF k = "api_key" /\ config.ObfuscateAPIKeys
                         /\ Len(decoded.APIKey) > config.ObfuscateAPIKeysLength
        THEN obfuscated(decoded.APIKey, config.ObfuscateAPIKeysLength)
        ELSE mapping(decoded)[k]]

\* The default event of lines 176-191.
defaultEvent(config, decoded) ==
    [k \in DefaultKeys |->
        CASE k = "method"        -> decoded.Method
          [] k = "path"          -> decoded.Path
          [] k = "response_code" -> decoded.ResponseCode
          [] k = "api_key"       -> decoded.APIKey
          [] k = "time_stamp"    -> decoded.TimeStamp
          [] k = "api_version"   -> decoded.APIVersion
          [] k = "api_name"      -> decoded.APIName
          [] k = "api_id"        -> decoded.APIID
          [] k = "org_id"        -> decoded.OrgID
          [] k = "oauth_id"      -> decoded.OauthID
          [] k = "raw_request"   -> decoded.RawRequest
          [] k = "request_time"  -> decoded.RequestTime
          [] k = "raw_response"  -> decoded.RawResponse
          [] k = "ip_address"    -> decoded.IPAddress]

\* The event WriteData builds for one record (lines 151-192), or the panic
\* building it ends in.
eventOf(config, decoded) ==
    IF Len(config.Fields) > 0
    THEN projectFrom(config, decoded, building(EmptyEvent), 1)
    ELSE building(defaultEvent(config, decoded))

(***************************************************************************)
(* SplunkClient.Send (lines 70-88) and the parts of encoding/json and      *)
(* net/http it rests on.                                                   *)
(***************************************************************************)
errMarshal   == "json: error calling MarshalJSON for type time.Time"
errScheme    == "unsupported protocol scheme"
errNoHost    == "http: no Host in request URL"
errCanceled  == "context canceled"
errNetwork   == "dial tcp: connection refused"

\* A request that was never built.
NoRequest == [built |-> FALSE, url |-> <<>>, auth |-> <<>>,
              time |-> [hi |-> 0, lo |-> 0]]

\* json.Marshal(eventWrap): every value of an event is a string, a number
\* or nil, which always serialise, or the record's time.Time under
\* "time_stamp", which serialises for years 0..9999 only.
marshalErr(event) ==
    IF "time_stamp" \in DOMAIN event /\ ~timeMarshals(event["time_stamp"])
    THEN errMarshal ELSE NoErr

\* Faulty variant of line 85: the request keeps the background context.
requestCtxBackground(ctxIsDone) == FALSE

\* req.WithContext(ctx) (line 85): whether the request's context is done,
\* given whether the caller's is.
requestCtxDone(ctxIsDone) == ctxIsDone

errHeaderName  == "net/http: invalid header field name"
errHeaderValue == "net/http: invalid header field value"

\* httpguts.ValidHeaderFieldName(name): a non-empty HTTP token.
ValidHeaderFieldName(name) ==
    /\ Len(name) > 0
    /\ \A i \in 1..Len(name) :
          name[i] \in Letter \cup Upper \cup Digit
                      \cup {"!", "#", "$", "%", "&", "'", "*", "+", "-", ".", "^",
                            "_", "0x60", "|", "~"}

\* httpguts.ValidHeaderFieldValue(value): no control byte but the tab.
ValidHeaderFieldValue(value) ==
    \A i \in 1..Len(value) :
        ~((codeOf[value[i]] < 32 \/ codeOf[value[i]] = 127) /\ codeOf[value[i]] # 9)

\* The checks (*http.Transport).roundTrip makes before it looks at the
\* request's context or touches the network, for a request with URL u and
\* the one header name: value.  The header is validated for http(s) URLs
\* only, and first.
roundTripPrecheck(u, name, value) ==
    IF u.Scheme \notin {<<"h","t","t","p">>, <<"h","t","t","p","s">>} THEN errScheme
    ELSE IF ~ValidHeaderFieldName(name) THEN errHeaderName
    ELSE IF ~ValidHeaderFieldValue(value) THEN errHeaderValue
    ELSE IF u.Host = <<>> THEN errNoHost
    ELSE NoErr

\* http.removeEmptyPort(host): a host that ends in its port's colon loses it.
removeEmptyPort(host) ==
    IF LastIndex(host, ":") > LastIndex(host, "]") /\ host[Len(host)] = ":"
    THEN SubSeq(host, 1, Len(host) - 1)
    ELSE host

\* The URL of the request http.NewRequest builds from the parsed URL u.
requestURL(u) == [u EXCEPT !.Host = removeEmptyPort(u.Host)]

\* What Send hands back to WriteData's loop before the network is touched.
sendReturned(e, req) == [phase |-> "returned", err |-> e, req |-> req]

\* Lines 85-87 up to the moment the request is on the wire, with the
\* request http.NewRequest built and its URL u.
sendRequest(u, req, ctxIsDone) ==
    IF roundTripPrecheck(u, authHeaderName, req.auth) # NoErr
    THEN sendReturned(roundTripPrecheck(u, authHeaderName, req.auth), req)
    ELSE IF requestCtxDone(ctxIsDone) THEN sendReturned(errCanceled, req)
    ELSE [phase |-> "inflight", err |-> NoErr, req |-> req]

\* Lines 81-84, with the outcome of http.NewRequest's url.Parse.
sendParsed(c, u, ctxIsDone, ts) ==
    IF u.err # NoErr THEN sendReturned(u.err, NoRequest)
    ELSE sendRequest(requestURL(u.url), [built |-> TRUE, url |-> c.CollectorURL,
                         auth |-> authHeaderPrefix \o c.Token, time |-> Unix(ts)],
                     ctxIsDone)

\* Send up to the moment the request is on the wire: "panic" (a nil
\* receiver dereferenced at line 81), "returned" (with err), or "inflight".
sendStart(c, ctxIsDone, event, ts) ==
    IF marshalErr(event) # NoErr THEN sendReturned(marshalErr(event), NoRequest)
    ELSE IF c.ptr = "nil" THEN [phase |-> "panic", err |-> NoErr, req |-> NoRequest]
    ELSE sendParsed(c, Parse(c.CollectorURL), ctxIsDone, ts)

\* What the network hands c.httpClient.Do for a request on the wire: a
\* response with any status (statuses are not interpreted) or an error.
networkOutcomes ==
    {[err |-> NoErr, status |-> 200], [err |-> NoErr, status |-> 503],
     [err |-> errNetwork, status |-> 0]}

\* What c.httpClient.Do can return for a request on the wire.  Once the
\* request's context is done the transport's select between the
\* cancellation and the connection's result may take either: the
\* cancellation error, or the response or error that had already arrived.
doOutcomes(ctxIsDone) ==
    IF requestCtxDone(ctxIsDone)
    THEN {[err |-> errCanceled, status |-> 0]} \cup networkOutcomes
    ELSE networkOutcomes

(***************************************************************************)
(* WriteData's control (lines 147, 194-196).                               *)
(***************************************************************************)
\* Faulty variant of the loop: it stops at the first Send that fails.
nextIndexStopOnError(i, err) == IF err # NoErr THEN i + MaxBatch + 1 ELSE i + 1

\* The index of the record the range loop takes after the Send of record i
\* returned err: the result of Send is discarded.
nextIndex(i, err) == i + 1

\* Faulty variant of line 196: the first error of a Send is returned.
writeDataFirstError(errs) ==
    IF \E i \in 1..Len(errs) : errs[i] # NoErr
    THEN errs[CHOOSE i \in 1..Len(errs) :
                  errs[i] # NoErr /\ \A j \in 1..(i-1) : errs[j] = NoErr]
    ELSE NoErr

\* The error WriteData returns after the loop (line 196), given the errors
\* the Sends returned.
writeDataResult(errs) == NoErr

(***************************************************************************)
(* Inputs.                                                                 *)
(***************************************************************************)
Pumps == 1..NumPumps

\* Collector tokens a configuration may carry: none, a well-formed one, and
\* one that ends in a line feed.
TokenNone     == <<>>
TokenGood     == <<"t", "o", "k">>
TokenLineFeed == <<"t", "o", "k", "0x0A">>

\* Collector URLs a configuration may carry.
URLHostPort   == <<"h", "t", "t", "p", "s", ":", "/", "/", "h", ":", "8", "0", "8", "8">>   \* "https://h:8088"
URLRootPath   == <<"h", "t", "t", "p", "s", ":", "/", "/", "h", ":", "8", "0", "8", "8", "/">>   \* "https://h:8088/"
URLPathQuery  == <<"h", "t", "t", "p", ":", "/", "/", "h", "/", "x", "?", "q", "#", "f">>   \* "http://h/x?q#f"
URLNoScheme   == <<":", "h">>   \* ":h"
URLBadPort    == <<"h", "t", "t", "p", ":", "/", "/", "h", ":", "x">>   \* "http://h:x"
URLBareHost   == <<"h", ":", "8", "0", "8", "8">>   \* "h:8088"
URLRelative   == <<"h", "/", "x">>   \* "h/x"
URLBadHost    == <<"h", "t", "t", "p", ":", "/", "/", "h", " ", "h">>   \* "http://h h"
URLEmptyPort  == <<"h", "t", "t", "p", ":", "/", "/", ":">>   \* "http://:"
URLEscaped    == <<"H", "t", "t", "p", ":", "/", "/", "h", "/", "a", " ", "b", "#", "a", "<", "b">>   \* "Http://h/a b#a<b"

CollectorURLs == {<<>>, URLHostPort, URLRootPath, URLPathQuery, URLNoScheme,
                  URLBadPort, URLBadHost, URLBareHost, URLRelative}

\* The TLS settings a configuration may carry: skip-verify, a key pair that
\* loads, a key pair that does not.
TLSSettings ==
    {[skip |-> TRUE,  cert |-> "",           key |-> "",            name |-> ""],
     [skip |-> FALSE, cert |-> "client.crt", key |-> "client.key",  name |-> "hec.local"],
     [skip |-> FALSE, cert |-> "client.crt", key |-> "missing.key", name |-> "hec.local"]}

\* A configuration with the given transport and projection settings.
Config(token, url, tls, fields, obfuscate, length) ==
    [ptr |-> "SplunkPumpConfig",
     CollectorToken |-> token, CollectorURL |-> url,
     SSLInsecureSkipVerify |-> tls.skip, SSLCertFile |-> tls.cert,
     SSLKeyFile |-> tls.key, SSLServerName |-> tls.name,
     ObfuscateAPIKeys |-> obfuscate, ObfuscateAPIKeysLength |-> length,
     Fields |-> fields]

\* The value handed to Init that is no map.
NotAMap == [kind |-> "string", config |-> ZeroConfig]

\* Inputs of Init that vary the transport settings.
TransportSettings ==
    {<<token, url, tls>> :
        token \in {TokenNone, TokenGood}, url \in CollectorURLs, tls \in {t \in TLSSettings : t.skip}}
    \cup {<<TokenGood, url, tls>> : url \in {URLHostPort, URLNoScheme}, tls \in TLSSettings}
    \cup {<<TokenNone, URLHostPort, tls>> : tls \in TLSSettings}
    \cup {<<TokenGood, url, tls>> :
             url \in {URLEmptyPort, URLEscaped}, tls \in {t \in TLSSettings : t.skip}}

ConstructInputs ==
    {[kind |-> "map", config |-> Config(t[1], t[2], t[3], <<>>, FALSE, 0)] :
        t \in TransportSettings}
    \cup {NotAMap}

\* Field lists a configuration may carry.
FieldLists == {<<>>, <<"api_key">>, <<"method", "api_key">>, <<"bogus">>,
               <<"bogus", "path", "api_key">>}

\* Inputs of Init that vary the projection settings, over a working client,
\* a client whose URL has no http(s) scheme, a client whose URL has no
\* host, a client whose token makes no valid header value, and a failing
\* construction.
DeliverInputs ==
    {[kind |-> "map",
      config |-> Config(t[1], t[2], CHOOSE tls \in TLSSettings : tls.skip,
                        fields, obfuscate, length)] :
        t \in {<<TokenGood, URLHostPort>>, <<TokenGood, URLBareHost>>,
               <<TokenGood, URLEmptyPort>>, <<TokenLineFeed, URLHostPort>>,
               <<TokenNone, URLHostPort>>},
        fields \in FieldLists, obfuscate \in BOOLEAN, length \in {0, 4}}

\* Instants: two in 2017, and 10000-01-01T00:00:00Z.
TimeA == [hi |-> 1, lo |-> 500000000, nsec |-> 999999999]
TimeB == [hi |-> 1, lo |-> 500000001, nsec |-> 0]
TimeFar == [hi |-> 253, lo |-> 402300800, nsec |-> 0]

\* Analytics records.
Record(method, code, apiKey, ts) ==
    [Method |-> method, Path |-> "/x", ResponseCode |-> code, APIKey |-> apiKey,
     TimeStamp |-> ts, APIVersion |-> "v1", APIName |-> "orders",
     APIID |-> "a1", OrgID |-> "org", OauthID |-> "oauth",
     RawRequest |-> "R0VUIC94", RequestTime |-> 12,
     RawResponse |-> "MjAwIE9L", IPAddress |-> "10.0.0.1"]

Records ==
    {Record("GET", 200, <<"1", "2", "3", "4", "5", "6", "7", "8", "9", "0">>, TimeA),
     Record("POST", 500, <<"7", "8", "9", "0">>, TimeB),
     Record("PUT", 404, <<"a", "b", "c", "d", "e">>, TimeFar)}

RECURSIVE SeqsUpTo(_, _)
SeqsUpTo(S, n) ==
    IF n = 0 THEN {<<>>}
    ELSE LET shorter == SeqsUpTo(S, n - 1) IN
         shorter \cup {Append(q, x) : q \in shorter, x \in S}

\* Batches handed to WriteData.
Batches == SeqsUpTo(Records, MaxBatch)

(***************************************************************************)
(* State.                                                                  *)
(***************************************************************************)
VARIABLES
    transport,  \* http.DefaultClient.Transport, shared by the whole process
    config,     \* p.config of each pump
    client,     \* p.client of each pump
    initErr,    \* what the last Init of each pump returned
    pc,         \* where the WriteData call in progress stands
    wp,         \* the pump WriteData was called on
    batch,      \* the data argument of the call
    idx,        \* the position of the range loop in the batch
    ctxDone,    \* whether the ctx argument of the call is canceled
    flight,     \* the request of the Send that is on the wire
    flightCtx,  \* whether ctx was canceled when that Send was called
    sends,      \* the Sends of the call that returned, in order
    ret         \* what WriteData returned

vars == <<transport, config, client, initErr, pc, wp, batch, idx, ctxDone,
          flight, flightCtx, sends, ret>>

pumpVars == <<transport, config, client, initErr>>
callVars == <<pc, wp, batch, idx, ctxDone, flight, flightCtx, sends, ret>>

Init ==
    /\ transport = GoDefaultTransport
    /\ config = [p \in Pumps |-> NilConfig]
    /\ client = [p \in Pumps |-> NilClient]
    /\ initErr = [p \in Pumps |-> "not called"]
    /\ pc = "idle"
    /\ wp = 1
    /\ batch = <<>>
    /\ idx = 1
    /\ ctxDone = FALSE
    /\ flight = NoRequest
    /\ flightCtx = FALSE
    /\ sends = <<>>
    /\ ret = "none"

(***************************************************************************)
(* SplunkPump.Init (lines 121-140).  The host calls it between deliveries. *)
(***************************************************************************)
\* Lines 131-139: p.client and the returned error are what NewSplunkClient
\* returned, r.
PumpInitClient(p, r) ==
    /\ client' = [client EXCEPT ![p] = r.c]
    /\ initErr' = [initErr EXCEPT ![p] = r.err]
    /\ transport' = IF r.setsTransport THEN r.transport ELSE transport

\* Lines 122-134, with the outcome d of mapstructure.Decode.
PumpInitDecoded(p, d) ==
    /\ config' = [config EXCEPT ![p] = d.config]
    /\ IF d.err # NoErr
       THEN /\ initErr' = [initErr EXCEPT ![p] = d.err]
            /\ UNCHANGED <<client, transport>>
       ELSE PumpInitClient(p, NewSplunkClient(d.config.CollectorToken,
                                              d.config.CollectorURL,
                                              d.config.SSLInsecureSkipVerify,
                                              d.config.SSLCertFile,
                                              d.config.SSLKeyFile,
                                              d.config.SSLServerName))

PumpInit(p, input) ==
    /\ pc = "idle"
    /\ PumpInitDecoded(p, Decode(input))
    /\ UNCHANGED callVars

(***************************************************************************)
(* SplunkPump.WriteData (lines 143-197), one step per Send so that the     *)
(* caller's cancellation can fall between and during the Sends.            *)
(***************************************************************************)
\* The host calls WriteData(ctx, data) on pump p.
WriteDataCall(p, data, canceled) ==
    /\ pc = "idle"
    /\ pc' = "loop"
    /\ wp' = p
    /\ batch' = data
    /\ idx' = 1
    /\ ctxDone' = canceled
    /\ flight' = NoRequest
    /\ flightCtx' = FALSE
    /\ sends' = <<>>
    /\ ret' = "none"
    /\ UNCHANGED pumpVars

\* The record of one Send that returned: what it was called with, what it
\* returned, and whether ctx was canceled when it was called (ctxAtCall)
\* and when it returned (ctxDone).
sendEntry(event, ts, req, err, status, atCall, done) ==
    [event |-> event, ts |-> ts, req |-> req, err |-> err, status |-> status,
     ctxAtCall |-> atCall, ctxDone |-> done]

\* Line 194 for the record `decoded` and its event, with what Send did, s.
StepSend(decoded, event, s) ==
    CASE s.phase = "panic" ->
           /\ pc' = "panic"
           /\ UNCHANGED <<idx, flight, flightCtx, sends>>
      [] s.phase = "returned" ->
           /\ sends' = Append(sends, sendEntry(event, decoded.TimeStamp,
                                               s.req, s.err, 0, ctxDone, ctxDone))
           /\ idx' = nextIndex(idx, s.err)
           /\ UNCHANGED <<pc, flight, flightCtx>>
      [] s.phase = "inflight" ->
           /\ pc' = "inflight"
           /\ flight' = s.req
           /\ flightCtx' = ctxDone
           /\ UNCHANGED <<idx, sends>>

\* Lines 148-194 for the record `decoded`, with what building its event
\* came to, b.
StepEvent(decoded, b) ==
    IF b.panic
    THEN \* the slice expression of line 167
         /\ pc' = "panic"
         /\ UNCHANGED <<idx, flight, flightCtx, sends>>
    ELSE StepSend(decoded, b.event,
                  sendStart(client[wp], ctxDone, b.event, decoded.TimeStamp))

\* One iteration of the loop up to the point where Send returns or its
\* request is on the wire.
WriteDataStep ==
    /\ pc = "loop"
    /\ idx <= Len(batch)
    /\ IF config[wp].ptr = "nil"
       THEN \* len(p.config.Fields) on a nil config (line 154)
            /\ pc' = "panic"
            /\ UNCHANGED <<idx, flight, flightCtx, sends>>
       ELSE StepEvent(batch[idx], eventOf(config[wp], batch[idx]))
    /\ UNCHANGED <<wp, batch, ctxDone, ret>>
    /\ UNCHANGED pumpVars

\* c.httpClient.Do returns for the request on the wire.
SendComplete ==
    /\ pc = "inflight"
    /\ \E o \in doOutcomes(ctxDone) :
          /\ sends' = Append(sends,
                             sendEntry(eventOf(config[wp], batch[idx]).event,
                                       batch[idx].TimeStamp, flight, o.err,
                                       o.status, flightCtx, ctxDone))
          /\ idx' = nextIndex(idx, o.err)
    /\ pc' = "loop"
    /\ flight' = NoRequest
    /\ flightCtx' = FALSE
    /\ UNCHANGED <<wp, batch, ctxDone, ret>>
    /\ UNCHANGED pumpVars

\* The loop is over: return (line 196).
WriteDataReturn ==
    /\ pc = "loop"
    /\ idx > Len(batch)
    /\ pc' = "returned"
    /\ ret' = writeDataResult([i \in 1..Len(sends) |-> sends[i].err])
    /\ UNCHANGED <<wp, batch, idx, ctxDone, flight, flightCtx, sends>>
    /\ UNCHANGED pumpVars

\* The caller cancels the context of the call in progress.
CtxCancel ==
    /\ pc \in {"loop", "inflight"}
    /\ ~ctxDone
    /\ ctxDone' = TRUE
    /\ UNCHANGED <<pc, wp, batch, idx, flight, flightCtx, sends, ret>>
    /\ UNCHANGED pumpVars

\* The host has the result of the call and is free to make the next one;
\* the frame of the call is gone.
HostResumes ==
    /\ pc = "returned"
    /\ pc' = "idle"
    /\ wp' = 1
    /\ batch' = <<>>
    /\ idx' = 1
    /\ ctxDone' = FALSE
    /\ flight' = NoRequest
    /\ flightCtx' = FALSE
    /\ sends' = <<>>
    /\ ret' = "none"
    /\ UNCHANGED pumpVars

(***************************************************************************)
(* Specifications.                                                         *)
(***************************************************************************)
\* Delivery: one pump, every projection setting, every batch.
DeliveryPumps == {p \in Pumps : \A q \in Pumps : p <= q}

Next ==
    \/ \E p \in DeliveryPumps, input \in DeliverInputs : PumpInit(p, input)
    \/ \E p \in DeliveryPumps, data \in Batches, canceled \in BOOLEAN :
          WriteDataCall(p, data, canceled)
    \/ WriteDataStep
    \/ SendComplete
    \/ WriteDataReturn
    \/ CtxCancel
    \/ HostResumes

Spec == Init /\ [][Next]_vars

\* Construction: every pump, every transport setting.
NextConstruct == \E p \in Pumps, input \in ConstructInputs : PumpInit(p, input)

SpecConstruct == Init /\ [][NextConstruct]_vars

(***************************************************************************)
(* Vocabulary of the properties.                                           *)
(***************************************************************************)
\* The fields of a field list.
Requested(fields) == {fields[i] : i \in 1..Len(fields)}

\* A WriteData call is in progress or has just returned.
InCall == pc \in {"loop", "inflight", "returned"}

\* The last Init of pump p got as far as calling NewSplunkClient.
Constructed(p) == initErr[p] \notin {"not called", errDecode}

\* The key pair named by configuration c loads.
KeyPairLoads(c) == <<c.SSLCertFile, c.SSLKeyFile>> \in KeyPairsOnDisk

(***************************************************************************)
(* Properties of delivery, checked under Spec.                             *)
(***************************************************************************)
\* C1: while WriteData runs on an initialised pump, and when it returns, the
\* Sends that returned are one per record taken so far, in batch order: the
\* i-th Send carried the event of the i-th record and that record's
\* timestamp, whether or not earlier Sends failed; at return there is one
\* Send for every record of the batch.
C1_OneSendPerRecordInOrder ==
    InCall =>
        /\ Len(sends) = (IF pc = "returned" THEN Len(batch) ELSE idx - 1)
        /\ \A i \in 1..Len(sends) :
              /\ sends[i].event = eventOf(config[wp], batch[i]).event
              /\ sends[i].ts = batch[i].TimeStamp

\* C1 witness: a batch of two different records was delivered, the first
\* Send failed and the second was still made and succeeded.
C1_Witness ==
    /\ pc = "returned"
    /\ Len(batch) = 2
    /\ batch[1].TimeStamp # batch[2].TimeStamp
    /\ Len(sends) = 2
    /\ sends[1].err # NoErr
    /\ sends[2].err = NoErr
    /\ sends[2].status = 200

\* C2: whenever WriteData returns it returns no error, whatever the Sends
\* returned.
C2_WriteDataReturnsNil == pc = "returned" => ret = NoErr

\* C2 witness: WriteData returned after a Send failed on the network and
\* another was canceled.
C2_Witness ==
    /\ pc = "returned"
    /\ \E i, j \in 1..Len(sends) :
          sends[i].err = errNetwork /\ sends[j].err = errCanceled

\* C3 as claimed: every Send whose context was canceled before it completed
\* (before it was called or while its request was on the wire) returned the
\* cancellation error and no response.
C3_CanceledSendReturnsCancellation ==
    \A i \in 1..Len(sends) :
        sends[i].ctxDone => sends[i].err = errCanceled /\ sends[i].status = 0

\* C3 amended: every Send whose context was already canceled when it was
\* called returned an error and no response; the error is the cancellation
\* error unless Send failed before it consulted the context, because the
\* event does not serialise, because the collector URL has no http(s)
\* scheme or no host, or because the token makes no valid header value.
\* (A Send whose context is canceled while its request is on the wire may
\* return the cancellation error or what had arrived.)
C3_CanceledBeforeSendNeverSucceeds ==
    \A i \in 1..Len(sends) :
        sends[i].ctxAtCall =>
            /\ sends[i].status = 0
            /\ sends[i].err # NoErr
            /\ sends[i].err # errCanceled =>
                  \/ /\ sends[i].err = errMarshal
                     /\ ~timeMarshals(batch[i].TimeStamp)
                     /\ ~sends[i].req.built
                  \/ /\ sends[i].err \in {errScheme, errHeaderValue, errNoHost}
                     /\ sends[i].req.built
                     /\ sends[i].err
                          = roundTripPrecheck(
                                requestURL(Parse(client[wp].CollectorURL).url),
                                <<"a", "u", "t", "h", "o", "r", "i", "z", "a", "t", "i", "o", "n">>,
                                <<"S", "p", "l", "u", "n", "k", " ">> \o client[wp].Token)

\* C3 witness: the first Send of a batch was answered with status 200, the
\* context was then canceled, and the second Send, called with the canceled
\* context and its request built, returned the cancellation error.
C3_Witness ==
    /\ Len(sends) = 2
    /\ sends[1].status = 200
    /\ ~sends[1].ctxDone
    /\ sends[2].ctxAtCall
    /\ sends[2].req.built
    /\ sends[2].err = errCanceled

\* C7 as claimed: when api_key is requested and obfuscation is enabled, a
\* key longer than the configured length N appears in the event as "****"
\* followed by its last N characters, and a key of length at most N has no
\* api_key entry.
C7_ApiKeyRedacted ==
    \A i \in 1..Len(sends) :
        LET c == config[wp]
            K == batch[i].APIKey
            N == c.ObfuscateAPIKeysLength
        IN ("api_key" \in Requested(c.Fields) /\ c.ObfuscateAPIKeys) =>
              IF Len(K) > N
              THEN /\ "api_key" \in DOMAIN sends[i].event
                   /\ sends[i].event["api_key"]
                        = <<"*", "*", "*", "*">> \o SubSeq(K, Len(K) - N + 1, Len(K))
              ELSE "api_key" \notin DOMAIN sends[i].event

\* C8 as claimed: with a non-empty field list, a requested name that the
\* registry does not know has no entry in the event.
C8_UnknownFieldOmitted ==
    \A i \in 1..Len(sends) :
        \A f \in Requested(config[wp].Fields) :
            f \notin DefaultKeys => f \notin DOMAIN sends[i].event

\* C9: with an empty field list every event has exactly the fourteen
\* default keys, each with the record's own value of that field; api_key is
\* the whole key, with obfuscation enabled or not.
C9_DefaultProjection ==
    \A i \in 1..Len(sends) :
        Len(config[wp].Fields) = 0 =>
            LET e == sends[i].event
                r == batch[i]
            IN /\ DOMAIN e = {"method", "path", "response_code", "api_key",
                              "time_stamp", "api_version", "api_name", "api_id",
                              "org_id", "oauth_id", "raw_request", "request_time",
                              "raw_response", "ip_address"}
               /\ e["method"] = r.Method
               /\ e["path"] = r.Path
               /\ e["response_code"] = r.ResponseCode
               /\ e["api_key"] = r.APIKey
               /\ e["time_stamp"] = r.TimeStamp
               /\ e["api_version"] = r.APIVersion
               /\ e["api_name"] = r.APIName
               /\ e["api_id"] = r.APIID
               /\ e["org_id"] = r.OrgID
               /\ e["oauth_id"] = r.OauthID
               /\ e["raw_request"] = r.RawRequest
               /\ e["request_time"] = r.RequestTime
               /\ e["raw_response"] = r.RawResponse
               /\ e["ip_address"] = r.IPAddress

\* C9 witness: an event was sent under an empty field list with obfuscation
\* enabled, for a record whose key is longer than the configured length.
C9_Witness ==
    /\ Len(sends) >= 1
    /\ Len(config[wp].Fields) = 0
    /\ config[wp].ObfuscateAPIKeys
    /\ Len(batch[1].APIKey) > config[wp].ObfuscateAPIKeysLength
    /\ sends[1].req.built

\* C10 as claimed: with a non-empty field list, every requested name the
\* registry knows, other than api_key under obfuscation, is in the event
\* with the record's value, and the event has no other keys than the
\* requested names the registry knows.
C10_ResolvedFieldsVerbatim ==
    \A i \in 1..Len(sends) :
        LET c == config[wp] IN
        Len(c.Fields) > 0 =>
            /\ \A f \in Requested(c.Fields) \cap DefaultKeys :
                  ~(f = "api_key" /\ c.ObfuscateAPIKeys) =>
                      /\ f \in DOMAIN sends[i].event
                      /\ sends[i].event[f] = mapping(batch[i])[f]
            /\ DOMAIN sends[i].event \subseteq Requested(c.Fields) \cap DefaultKeys

(***************************************************************************)
(* Properties of construction, checked under SpecConstruct.                *)
(***************************************************************************)
\* C4 as claimed: the TLS configuration the Sends of every constructed
\* client use (the one of its httpClient's transport) is the one that
\* client's own construction established.
C4_ClientOwnsTransport ==
    \A p \in Pumps :
        (Constructed(p) /\ initErr[p] = NoErr) =>
            transport.TLSClientConfig =
                (IF config[p].SSLInsecureSkipVerify
                 THEN tlsConfigSkip(TRUE)
                 ELSE tlsConfigCert(<<config[p].SSLCertFile, config[p].SSLKeyFile>>,
                                    config[p].SSLServerName))

\* C5: an Init that reached NewSplunkClient with an empty token, an empty
\* URL, a URL that does not parse, or verification enabled and a key pair
\* that does not load, returned an error and left the pump with a nil
\* client; for the empty token or URL the error is errInvalidSettings.
C5_ConstructFailsOnBadSettings ==
    \A p \in Pumps :
        Constructed(p) =>
            LET c == config[p] IN
            /\ (c.CollectorToken = <<>> \/ c.CollectorURL = <<>>) =>
                  initErr[p] = errInvalidSettings
            /\ (\/ c.CollectorToken = <<>>
                \/ c.CollectorURL = <<>>
                \/ Parse(c.CollectorURL).err # NoErr
                \/ (~c.SSLInsecureSkipVerify /\ ~KeyPairLoads(c))) =>
                  /\ initErr[p] # NoErr
                  /\ client[p].ptr = "nil"

\* C5 witness: one pump failed on its key pair, another on its URL, and both
\* are left without a client.
C5_Witness ==
    \E p, q \in Pumps :
        /\ config[p].CollectorToken = <<"t", "o", "k">>
        /\ config[p].CollectorURL = URLHostPort
        /\ initErr[p] = "tls: failed to load key pair"
        /\ client[p].ptr = "nil"
        /\ config[q].CollectorToken = <<"t", "o", "k">>
        /\ initErr[q] = "missing protocol scheme"
        /\ client[q].ptr = "nil"

\* C6 as claimed: for a non-empty token and a non-empty URL that parses
\* (and TLS settings that load), construction succeeds and the path of the
\* client's endpoint URL is the collector path.
C6_EndpointPathIsCollectorPath ==
    \A p \in Pumps :
        LET c == config[p] IN
        (/\ Constructed(p)
         /\ c.CollectorToken # <<>>
         /\ c.CollectorURL # <<>>
         /\ Parse(c.CollectorURL).err = NoErr
         /\ (c.SSLInsecureSkipVerify \/ KeyPairLoads(c))) =>
            /\ initErr[p] = NoErr
            /\ client[p].ptr = "SplunkClient"
            /\ Parse(client[p].CollectorURL).err = NoErr
            /\ Parse(client[p].CollectorURL).url.Path = defaultPath

====
